---------------------------- MODULE Spec2Model ----------------------------
(***************************************************************************)
(* Credential resolution of dynamightea (pkg/config): LoadConfig and      *)
(* Config.GetCredentials with its three metadata strategies               *)
(* (getECSCredentials, getIMDSv2Credentials, getIMDSv1Credentials).       *)
(* Every blocking HTTP call is a position of the caller: the request is   *)
(* issued, the clock may tick while it is in flight, and the endpoint      *)
(* answers, fails, or hangs until the client's timeout abandons it.       *)
(* The module also covers the DynamoDB client built on these credentials   *)
(* (pkg/db: createDynamoDBClient, ListTables, DescribeTable) and the       *)
(* terminal UI's message handler (pkg/ui: Model.Update).  Each part has    *)
(* its own specification over the one set of variables; the variables of   *)
(* the other parts rest at their initial values.                           *)
(***************************************************************************)
EXTENDS Integers, Sequences, FiniteSets, TLC

VARIABLES
    env,        \* the process environment (os.Getenv)
    cfg,        \* the *Config returned by LoadConfig
    pc,         \* position of the caller
    now,        \* wall clock, in seconds
    startTime,  \* clock value when GetCredentials was entered
    requests,   \* every request issued so far, in order
    inflight,   \* indices (into requests) of the requests awaiting an answer
    responses,  \* what came back for each request, in order
    attempts,   \* strategies entered, in order
    failures,   \* strategies that returned an error, with the step that failed
    token,      \* IMDSv2 session token read in step 1
    ret,        \* what GetCredentials returned
    openBodies, \* requests whose response body is open (not yet closed)
    deferred,   \* the deferred Body.Close calls of the strategy running
    caller,     \* who runs: "direct" (LoadConfig, GetCredentials) or "client"
    calls,      \* number of GetCredentials invocations so far
    optFns,     \* createDynamoDBClient: the SDK load options collected so far
    built,      \* createDynamoDBClient: what it returned
    client,     \* DynamoClient.client: Nil, or the SDK client
    dbpc,       \* position inside ListTables / DescribeTable
    dbCall,     \* the DynamoClient method running, with its argument
    tableNames, \* ListTables: names appended so far
    nextToken,  \* ListTables: LastEvaluatedTableName of the last page
    apiLog,     \* what the DynamoDB API answered to this call, in order
    dbRet,      \* what the DynamoClient method returned
    tables,        \* Model.tables
    selectedTable, \* Model.selectedTable
    viewMode,      \* Model.viewMode
    tableData,     \* Model.tableData
    width,         \* Model.width
    height,        \* Model.height
    loading,       \* Model.loading
    error,         \* Model.error
    pending,       \* commands returned by Init / Update that have not reported yet
    quit,          \* "no", "requested" (tea.Quit returned) or "exited"
    lastMsg,       \* the message Update handled last
    active,        \* which of two concurrent GetCredentials calls is stepping
    parked         \* the local state of the call that is not stepping

bodyVars == <<openBodies, deferred>>
credVars == <<env, cfg, pc, now, startTime, requests, inflight,
              responses, attempts, failures, token, ret, bodyVars>>
clientVars == <<caller, calls, optFns, built>>
dbVars == <<client, dbpc, dbCall, tableNames, nextToken, apiLog, dbRet>>
uiVars == <<tables, selectedTable, viewMode, tableData, width, height,
            loading, error, pending, quit, lastMsg>>
concVars == <<active, parked>>
restVars == <<clientVars, dbVars, uiVars, concVars>>
vars == <<credVars, clientVars, dbVars, uiVars, concVars>>

(***************************************************************************)
(* Bounds and program constants                                            *)
(***************************************************************************)
MaxStart == 1          \* the clock reads 0..MaxStart when the process starts
MaxDelay == 1          \* an answer arrives 0..MaxDelay seconds after its request

Timeout == 5           \* http.Client{Timeout: 5 * time.Second}
OneHour == 3600        \* time.Now().Add(1 * time.Hour)
TokenTTL == 21600      \* X-aws-ec2-metadata-token-ttl-seconds
StatusOK == 200        \* http.StatusOK
ZeroTime == -1         \* the zero time.Time of a Credentials built without Expiration

IMDSHost == "http://169.254.169.254"
ECSHost == "http://169.254.170.2"
TokenPath == "/latest/api/token"
RolePath == "/latest/meta-data/iam/security-credentials/"

(***************************************************************************)
(* Inputs: environment values and endpoint answers                         *)
(***************************************************************************)
AccessKeyValues == {"", "AKIAENV"}
SecretKeyValues == {"", "envsecret"}
SessionTokenValues == {"", "envtoken"}
UseIMDSValues == {"", "false", "true"}
IMDSVersionValues == {"", "v1", "v2", "auto"}
ECSEndpointValues == {"", "http://169.254.170.2/v3"}
RelativeURIValues == {"", "/v2/credentials/task"}
RegionValues == {"", "us-west-2"}
DefaultRegionValues == {"", "eu-central-1"}
ProfileValues == {"", "testprofile"}
DynamoEndpointValues == {"", "http://localhost:8000"}
HomeValues == {"", "/home/dev"}

\* the variables GetCredentials and its strategies read, with the ones only
\* LoadConfig reads left unset
Environments ==
    [AWS_ACCESS_KEY_ID : AccessKeyValues,
     AWS_SECRET_ACCESS_KEY : SecretKeyValues,
     AWS_SESSION_TOKEN : SessionTokenValues,
     AWS_USE_IMDS : UseIMDSValues,
     AWS_IMDS_VERSION : IMDSVersionValues,
     AWS_ECS_METADATA_ENDPOINT : ECSEndpointValues,
     AWS_CONTAINER_CREDENTIALS_RELATIVE_URI : RelativeURIValues,
     AWS_REGION : {""},
     AWS_DEFAULT_REGION : {""},
     AWS_PROFILE : {""},
     AWS_DYNAMODB_ENDPOINT : {""},
     HOME : {"/home/dev"}]

NonOKStatuses == {403}
TokenBodies == {"imds-session-token"}
RoleBodies == {"my-role", "my-role\n"}

\* JSON bodies of the credentials endpoints, as decoded into credResponse; a
\* field missing from the JSON object decodes to "".
CredBodies ==
    {[AccessKeyId |-> "ASIAMETA", SecretAccessKey |-> "metasecret",
      Token |-> "metatoken", Expiration |-> "1970-01-01T02:00:00Z"],
     [AccessKeyId |-> "ASIAMETA", SecretAccessKey |-> "metasecret",
      Token |-> "metatoken", Expiration |-> "1970-01-01T00:00:10Z"],
     [AccessKeyId |-> "ASIAMETA", SecretAccessKey |-> "metasecret",
      Token |-> "metatoken", Expiration |-> ""],
     [AccessKeyId |-> "ASIAMETA", SecretAccessKey |-> "metasecret",
      Token |-> "", Expiration |-> "1970-01-01 02:00:00"],
     [AccessKeyId |-> "", SecretAccessKey |-> "",
      Token |-> "", Expiration |-> ""]}

Nil == [nil |-> TRUE]
NoConfig == [loaded |-> FALSE]
NoReturn == [returned |-> FALSE]
NotBuilt == [done |-> FALSE]


(***************************************************************************)
(* LoadConfig                                                              *)
(***************************************************************************)
\* variant: the literal compared against is not the documented "false"
LoadUseIMDS_WrongLiteral(e) == e.AWS_USE_IMDS # "0"

LoadUseIMDS(e) == e.AWS_USE_IMDS # "false"

\* variant: the variable is copied as it is, with no default
LoadIMDSVersion_NoDefault(e) == e.AWS_IMDS_VERSION

LoadIMDSVersion(e) ==
    IF e.AWS_IMDS_VERSION = "" THEN "v2" ELSE e.AWS_IMDS_VERSION

LoadUseECSMetadata(e) == e.AWS_ECS_METADATA_ENDPOINT # ""

\* variant: AWS_DEFAULT_REGION is looked at before AWS_REGION
LoadRegion_DefaultRegionFirst(e) ==
    IF e.AWS_DEFAULT_REGION # "" THEN e.AWS_DEFAULT_REGION
    ELSE IF e.AWS_REGION # "" THEN e.AWS_REGION
    ELSE "us-east-1"

\* region: AWS_REGION, else AWS_DEFAULT_REGION, else "us-east-1"
LoadRegion(e) ==
    IF e.AWS_REGION # "" THEN e.AWS_REGION
    ELSE IF e.AWS_DEFAULT_REGION # "" THEN e.AWS_DEFAULT_REGION
    ELSE "us-east-1"

LoadProfile(e) == IF e.AWS_PROFILE = "" THEN "default" ELSE e.AWS_PROFILE

\* homeDir, _ := os.UserHomeDir(): "" when $HOME is not defined
\* filepath.Join(homeDir, ".aws"): an empty element is ignored
AwsConfigDir(e) == IF e.HOME = "" THEN ".aws" ELSE e.HOME \o "/.aws"

LoadConfigOf(e) ==
    [loaded |-> TRUE,
     Region |-> LoadRegion(e),
     Profile |-> LoadProfile(e),
     Endpoint |-> e.AWS_DYNAMODB_ENDPOINT,
     ConfigFile |-> AwsConfigDir(e) \o "/config",
     CredentialsFile |-> AwsConfigDir(e) \o "/credentials",
     UseIMDS |-> LoadUseIMDS(e),
     IMDSVersion |-> LoadIMDSVersion(e),
     UseECSMetadata |-> LoadUseECSMetadata(e)]

(***************************************************************************)
(* Pure parts of GetCredentials and of the strategies                      *)
(***************************************************************************)
\* variant: the session token is not copied
EnvCredentials_NoSessionToken(e) ==
    [AccessKeyID |-> e.AWS_ACCESS_KEY_ID,
     SecretAccessKey |-> e.AWS_SECRET_ACCESS_KEY,
     SessionToken |-> "",
     Expiration |-> ZeroTime]

EnvCredentials(e) ==
    [AccessKeyID |-> e.AWS_ACCESS_KEY_ID,
     SecretAccessKey |-> e.AWS_SECRET_ACCESS_KEY,
     SessionToken |-> e.AWS_SESSION_TOKEN,
     Expiration |-> ZeroTime]

\* variant: || in place of &&
EnvCredsUsable_Either(c) == c.AccessKeyID # "" \/ c.SecretAccessKey # ""

EnvCredsUsable(c) == c.AccessKeyID # "" /\ c.SecretAccessKey # ""

\* variant: the "v1" case is missing from the switch
FirstIMDSFlow_AlwaysV2(version) == "v2"

\* switch c.IMDSVersion: the flow called first
FirstIMDSFlow(version) == IF version = "v1" THEN "v1" ELSE "v2"

\* variant: the fallback is tied to an empty version, which LoadConfig never yields
FallsBackToV1_OnlyEmpty(version) == version = ""

\* variant: every version but "v1" downgrades to v1 after a failed v2 flow
FallsBackToV1_FromV2Too(version) == version # "v1"

\* the default: branch of the switch, the only one that calls v1 after v2
FallsBackToV1(version) == version \notin {"v1", "v2"}

\* time.Parse(time.RFC3339, s): seconds since the epoch of the model's clock
ParseRFC3339(s) ==
    CASE s = "1970-01-01T02:00:00Z" -> [ok |-> TRUE, t |-> 7200]
      [] s = "1970-01-01T00:00:10Z" -> [ok |-> TRUE, t |-> 10]
      [] OTHER -> [ok |-> FALSE, t |-> ZeroTime]

\* variant: the parse error is ignored and the zero time kept
DefaultExpiration_Zero(t) == ZeroTime

\* expiration = time.Now().Add(1 * time.Hour)
DefaultExpiration(t) == t + OneHour

\* variant: the parsed instant is dropped
ExpirationOf_AlwaysDefault(s, t) == DefaultExpiration(t)

ExpirationOf(s, t) ==
    IF ParseRFC3339(s).ok THEN ParseRFC3339(s).t ELSE DefaultExpiration(t)

\* return &Credentials{...} at the end of each metadata strategy
DecodedCredentials(body, t) ==
    [AccessKeyID |-> body.AccessKeyId,
     SecretAccessKey |-> body.SecretAccessKey,
     SessionToken |-> body.Token,
     Expiration |-> ExpirationOf(body.Expiration, t)]

\* net/url rejects a URL holding an ASCII control character
HasControlChar(s) == s \in {"my-role\n"}

\* fmt.Sprintf(".../security-credentials/%s", roleName)
CredentialsURL(roleName) == IMDSHost \o RolePath \o roleName

\* fmt.Sprintf("http://169.254.170.2%s", metadataEndpoint)
ECSURL(e) == ECSHost \o e.AWS_CONTAINER_CREDENTIALS_RELATIVE_URI

\* variant: the ECS client, built without a Timeout, gets no context deadline
RequestTimeoutOf_ECSUnbounded(strat) == IF strat = "ecs" THEN 0 ELSE Timeout

\* the deadline each strategy puts on its requests
RequestTimeoutOf(strat) == Timeout

Request(strat, step, method, url, tok, ttl) ==
    [strat |-> strat, step |-> step, method |-> method, url |-> url,
     token |-> tok, ttl |-> ttl, timeout |-> RequestTimeoutOf(strat)]

ECSRequest(e) == Request("ecs", "creds", "GET", ECSURL(e), "", 0)
V2TokenRequest == Request("v2", "token", "PUT", IMDSHost \o TokenPath, "", TokenTTL)
V2RoleRequest(tok) == Request("v2", "role", "GET", IMDSHost \o RolePath, tok, 0)
\* variant: the credentials GET goes out without the token header
V2CredsRequest_NoToken(tok, role) ==
    Request("v2", "creds", "GET", CredentialsURL(role), "", 0)

V2CredsRequest(tok, role) == Request("v2", "creds", "GET", CredentialsURL(role), tok, 0)
V1RoleRequest == Request("v1", "role", "GET", IMDSHost \o RolePath, "", 0)
V1CredsRequest(role) == Request("v1", "creds", "GET", CredentialsURL(role), "", 0)

FirstRequestOf(flow) == IF flow = "v1" THEN V1RoleRequest ELSE V2TokenRequest

\* variant: an ECS error is returned to the caller of GetCredentials
AfterFailure_ECSErrorIsFinal(strat, version) ==
    CASE strat = "ecs" -> "exhaust"
      [] strat = "v2" -> IF FallsBackToV1(version) THEN "v1" ELSE "exhaust"
      [] OTHER -> "exhaust"

\* variant: a failed v2 flow ends the IMDS strategy whatever the version
AfterFailure_NoFallback(strat, version) ==
    CASE strat = "ecs" -> "imds"
      [] OTHER -> "exhaust"

\* where GetCredentials continues when a strategy returned an error
AfterFailure(strat, version) ==
    CASE strat = "ecs" -> "imds"
      [] strat = "v2" -> IF FallsBackToV1(version) THEN "v1" ELSE "exhaust"
      [] OTHER -> "exhaust"

\* variant: the return after a successful ECS fetch is missing
AfterSuccess_ECSContinues(strat) == IF strat = "ecs" THEN "imds" ELSE "done"

\* where GetCredentials continues when a strategy returned credentials
AfterSuccess(strat) == "done"

Success(creds, source) ==
    [returned |-> TRUE, creds |-> creds, err |-> "", source |-> source]

\* variant: the error comes with a Credentials value left over from a strategy
Exhausted_WithCredentials ==
    [returned |-> TRUE,
     creds |-> [AccessKeyID |-> "", SecretAccessKey |-> "", SessionToken |-> "",
                Expiration |-> ZeroTime],
     err |-> "unable to locate AWS credentials", source |-> "none"]

Exhausted ==
    [returned |-> TRUE, creds |-> Nil,
     err |-> "unable to locate AWS credentials", source |-> "none"]

(***************************************************************************)
(* Initial state                                                           *)
(***************************************************************************)
\* a single GetCredentials call: no other goroutine shares the Config
OneCall ==
    /\ active = 1
    /\ parked = [pc |-> "none"]

\* no DynamoClient method is running
NoDbCall ==
    /\ client = Nil
    /\ dbpc = "idle"
    /\ dbCall = [op |-> "", name |-> ""]
    /\ tableNames = <<>>
    /\ nextToken = Nil
    /\ apiLog = <<>>
    /\ dbRet = NoReturn

tableListMode == "tables"
tableViewMode == "table"
indexViewMode == "index"

\* the Model NewModel returns
NewModel ==
    /\ tables = <<>>
    /\ selectedTable = 0
    /\ viewMode = tableListMode
    /\ tableData = Nil
    /\ width = 0
    /\ height = 0
    /\ loading = TRUE
    /\ error = Nil
    /\ quit = "no"
    /\ lastMsg = ""

Init ==
    /\ env \in Environments
    /\ cfg = NoConfig
    /\ pc = "load"
    /\ now \in 0..MaxStart
    /\ startTime = 0
    /\ requests = <<>>
    /\ inflight = {}
    /\ responses = <<>>
    /\ attempts = <<>>
    /\ failures = <<>>
    /\ token = ""
    /\ ret = NoReturn
    /\ openBodies = {}
    /\ deferred = <<>>
    /\ caller = "direct"
    /\ calls = 0
    /\ optFns = <<>>
    /\ built = NotBuilt
    /\ OneCall
    /\ NoDbCall
    /\ NewModel
    /\ pending = <<>>

(***************************************************************************)
(* Steps of the caller                                                     *)
(***************************************************************************)
Issue(r) ==
    /\ requests' = Append(requests, r)
    /\ inflight' = inflight \cup {Len(requests) + 1}
    /\ pc' = "wait"

\* LoadConfig in a process whose environment is e
LoadConfigIn(e) ==
    /\ pc = "load"
    /\ cfg' = LoadConfigOf(e)
    /\ pc' = IF caller = "client" THEN "create" ELSE "ready"
    /\ UNCHANGED <<env, now, startTime, requests, inflight,
                   responses, attempts, failures, token, ret>>
    /\ UNCHANGED bodyVars
    /\ UNCHANGED restVars

LoadConfig == LoadConfigIn(env)

\* entry of GetCredentials in a process whose environment is e: the
\* environment strategy
GetCredentialsIn(e) ==
    /\ pc = "ready"
    /\ startTime' = now
    /\ attempts' = <<"env">>
    /\ IF EnvCredsUsable(EnvCredentials(e))
       THEN /\ ret' = Success(EnvCredentials(e), "env")
            /\ pc' = AfterSuccess("env")
            /\ UNCHANGED failures
       ELSE /\ failures' = Append(failures,
                               [strat |-> "env", step |-> "env", cause |-> "absent"])
            /\ pc' = "ecs"
            /\ UNCHANGED ret
    /\ UNCHANGED <<env, cfg, now, requests, inflight, responses, token>>
    /\ UNCHANGED bodyVars
    /\ calls' = calls + 1
    /\ UNCHANGED <<caller, optFns, built, dbVars, uiVars, concVars>>

GetCredentials == GetCredentialsIn(env)

\* if c.UseECSMetadata { getECSCredentials() ... } up to its client.Do, in a
\* process whose environment is e
TryECSIn(e) ==
    /\ pc = "ecs"
    /\ IF ~cfg.UseECSMetadata
       THEN /\ pc' = "imds"
            /\ UNCHANGED <<attempts, failures, requests, inflight>>
       ELSE /\ attempts' = Append(attempts, "ecs")
            /\ IF e.AWS_CONTAINER_CREDENTIALS_RELATIVE_URI = ""
               THEN /\ failures' = Append(failures,
                                   [strat |-> "ecs", step |-> "env", cause |-> "unset"])
                    /\ pc' = AfterFailure("ecs", cfg.IMDSVersion)
                    /\ UNCHANGED <<requests, inflight>>
               ELSE /\ Issue(ECSRequest(e))
                    /\ UNCHANGED failures
    /\ UNCHANGED <<env, cfg, now, startTime, responses, token, ret>>
    /\ UNCHANGED bodyVars
    /\ UNCHANGED restVars

TryECS == TryECSIn(env)

\* if c.UseIMDS { switch c.IMDSVersion ... } up to the first client call
TryIMDS ==
    /\ pc = "imds"
    /\ IF ~cfg.UseIMDS
       THEN /\ pc' = "exhaust"
            /\ UNCHANGED <<attempts, requests, inflight>>
       ELSE /\ attempts' = Append(attempts, FirstIMDSFlow(cfg.IMDSVersion))
            /\ Issue(FirstRequestOf(FirstIMDSFlow(cfg.IMDSVersion)))
    /\ UNCHANGED <<env, cfg, now, startTime, responses, failures, token, ret>>
    /\ UNCHANGED bodyVars
    /\ UNCHANGED restVars

\* imdsCreds, err = getIMDSv1Credentials() after a failed v2 flow
TryV1 ==
    /\ pc = "v1"
    /\ attempts' = Append(attempts, "v1")
    /\ Issue(V1RoleRequest)
    /\ UNCHANGED <<env, cfg, now, startTime, responses, failures, token, ret>>
    /\ UNCHANGED bodyVars
    /\ UNCHANGED restVars

\* return nil, fmt.Errorf("unable to locate AWS credentials")
Exhaust ==
    /\ pc = "exhaust"
    /\ ret' = Exhausted
    /\ pc' = "done"
    /\ UNCHANGED <<env, cfg, now, startTime, requests, inflight,
                   responses, attempts, failures, token>>
    /\ UNCHANGED bodyVars
    /\ UNCHANGED restVars

(***************************************************************************)
(* A request in flight.  An answer arrives d seconds after the request,    *)
(* d in Delays, always before the deadline; a request that gets no answer  *)
(* is abandoned when its deadline passes.                                  *)
(***************************************************************************)
Delays == {d \in 0..MaxDelay : d < Timeout}

\* a Timeout of 0 is Go's "no timeout": such a request is never abandoned
HasDeadline(r) == r.timeout > 0

\* a body is a record: plain text, or the decoded JSON object
TextBody(b) == [text |-> b]
NoBody == [text |-> ""]

\* the variable of the strategy that holds the response to request r
ResponseVar(r) ==
    CASE r.strat = "v2" /\ r.step = "token" -> "tokenResp"
      [] r.strat = "v2" /\ r.step = "role" -> "roleResp"
      [] r.strat = "v2" /\ r.step = "creds" -> "credsResp"
      [] OTHER -> "resp"

\* defer resp.Body.Close(): the receiver, the body of request i, is evaluated now
Defer(stack, i) == Append(stack, [var |-> ResponseVar(requests[i]), body |-> i])

\* variant: each deferred call closes what its variable holds at the return
RunDeferred_AtReturnValue(stack) ==
    {stack[CHOOSE j \in DOMAIN stack :
               /\ stack[j].var = stack[k].var
               /\ \A m \in DOMAIN stack : stack[m].var = stack[k].var => m <= j].body :
        k \in DOMAIN stack}

\* the bodies closed when the strategy returns
RunDeferred(stack) == {stack[k].body : k \in DOMAIN stack}

\* a response to request i arrived: its body is open and its Close is deferred
BodyOpened(i) ==
    /\ openBodies' = openBodies \cup {i}
    /\ deferred' = Defer(deferred, i)

\* the strategy returns, after a response to request i if received holds
StrategyReturns(i, received) ==
    LET stack == IF received THEN Defer(deferred, i) ELSE deferred
        opened == IF received THEN openBodies \cup {i} ELSE openBodies
    IN /\ openBodies' = opened \ RunDeferred(stack)
       /\ deferred' = <<>>

Answer(i, kind, status, body, d) ==
    /\ responses' = Append(responses,
                           [req |-> i, kind |-> kind, status |-> status, body |-> body])
    /\ now' = now + d

\* every "return nil, fmt.Errorf(...)" of a strategy
Fail(i, kind, status, d) ==
    /\ Answer(i, kind, status, NoBody, d)
    /\ inflight' = inflight \ {i}
    /\ failures' = Append(failures,
                          [strat |-> requests[i].strat, step |-> requests[i].step,
                           cause |-> kind])
    /\ pc' = AfterFailure(requests[i].strat, cfg.IMDSVersion)
    /\ StrategyReturns(i, kind \in {"status", "body"})
    /\ UNCHANGED <<env, cfg, startTime, requests, attempts, token, ret>>
    /\ UNCHANGED restVars

\* the client's Timeout (the context's deadline for ECS) abandons the request
RequestTimeout ==
    /\ pc = "wait"
    /\ \E i \in inflight :
          /\ HasDeadline(requests[i])
          /\ Fail(i, "timeout", 0, requests[i].timeout)

\* client.Do / client.Get returned err != nil
TransportError ==
    /\ pc = "wait"
    /\ \E i \in inflight, d \in Delays : Fail(i, "transport", 0, d)

\* resp.StatusCode != http.StatusOK
RespondNotOK ==
    /\ pc = "wait"
    /\ \E i \in inflight, s \in NonOKStatuses, d \in Delays : Fail(i, "status", s, d)

\* io.ReadAll or json Decode returned an error on a 200 answer
RespondBadBody ==
    /\ pc = "wait"
    /\ \E i \in inflight, d \in Delays : Fail(i, "body", StatusOK, d)

\* v2 step 1 answered: read the token, issue the role request
TokenReceived ==
    /\ pc = "wait"
    /\ \E i \in inflight, b \in TokenBodies, d \in Delays :
          /\ requests[i].step = "token"
          /\ Answer(i, "ok", StatusOK, TextBody(b), d)
          /\ token' = b
          /\ BodyOpened(i)
          /\ requests' = Append(requests, V2RoleRequest(b))
          /\ inflight' = (inflight \ {i}) \cup {Len(requests) + 1}
    /\ UNCHANGED <<env, cfg, pc, startTime, attempts, failures, ret>>
    /\ UNCHANGED restVars

\* the role listing answered: read the role name, issue the credentials request
RoleReceived ==
    /\ pc = "wait"
    /\ \E i \in inflight, b \in RoleBodies, d \in Delays :
          /\ requests[i].step = "role"
          /\ Answer(i, "ok", StatusOK, TextBody(b), d)
          /\ IF HasControlChar(b)
             THEN \* http.NewRequest / client.Get cannot parse the URL
                  /\ failures' = Append(failures,
                         [strat |-> requests[i].strat, step |-> "creds", cause |-> "url"])
                  /\ pc' = AfterFailure(requests[i].strat, cfg.IMDSVersion)
                  /\ inflight' = inflight \ {i}
                  /\ StrategyReturns(i, TRUE)
                  /\ UNCHANGED requests
             ELSE /\ requests' = Append(requests,
                         IF requests[i].strat = "v2"
                         THEN V2CredsRequest(token, b) ELSE V1CredsRequest(b))
                  /\ inflight' = (inflight \ {i}) \cup {Len(requests) + 1}
                  /\ BodyOpened(i)
                  /\ UNCHANGED <<failures, pc>>
    /\ UNCHANGED <<env, cfg, startTime, attempts, token, ret>>
    /\ UNCHANGED restVars

\* the credentials endpoint answered with a JSON object: decode and return
CredentialsReceived ==
    /\ pc = "wait"
    /\ \E i \in inflight, b \in CredBodies, d \in Delays :
          /\ requests[i].step = "creds"
          /\ Answer(i, "ok", StatusOK, b, d)
          /\ inflight' = inflight \ {i}
          /\ ret' = Success(DecodedCredentials(b, now + d), requests[i].strat)
          /\ pc' = AfterSuccess(requests[i].strat)
          /\ StrategyReturns(i, TRUE)
    /\ UNCHANGED <<env, cfg, startTime, requests, attempts, failures, token>>
    /\ UNCHANGED restVars

Next ==
    \/ LoadConfig
    \/ GetCredentials
    \/ TryECS
    \/ TryIMDS
    \/ TryV1
    \/ Exhaust
    \/ RequestTimeout
    \/ TransportError
    \/ RespondNotOK
    \/ RespondBadBody
    \/ TokenReceived
    \/ RoleReceived
    \/ CredentialsReceived

Spec == Init /\ [][Next]_vars

\* one step of the program in a process whose environment is e
NextIn(e) ==
    \/ LoadConfigIn(e)
    \/ GetCredentialsIn(e)
    \/ TryECSIn(e)
    \/ TryIMDS
    \/ TryV1
    \/ Exhaust
    \/ RequestTimeout
    \/ TransportError
    \/ RespondNotOK
    \/ RespondBadBody
    \/ TokenReceived
    \/ RoleReceived
    \/ CredentialsReceived

\* the caller keeps running and the deadline of a request in flight passes;
\* nothing obliges an endpoint to answer
FairSpec ==
    /\ Spec
    /\ WF_vars(LoadConfig \/ GetCredentials \/ TryECS \/ TryIMDS \/ TryV1 \/ Exhaust)
    /\ WF_vars(RequestTimeout)

(***************************************************************************)
(* LoadConfig alone, over the variables that decide Region, Profile,       *)
(* Endpoint and the file locations                                         *)
(***************************************************************************)
ConfigEnvironments ==
    [AWS_ACCESS_KEY_ID : {""},
     AWS_SECRET_ACCESS_KEY : {""},
     AWS_SESSION_TOKEN : {""},
     AWS_USE_IMDS : {"", "false"},
     AWS_IMDS_VERSION : {""},
     AWS_ECS_METADATA_ENDPOINT : {""},
     AWS_CONTAINER_CREDENTIALS_RELATIVE_URI : {""},
     AWS_REGION : RegionValues,
     AWS_DEFAULT_REGION : DefaultRegionValues,
     AWS_PROFILE : ProfileValues,
     AWS_DYNAMODB_ENDPOINT : DynamoEndpointValues,
     HOME : HomeValues]

ConfigInit ==
    /\ env \in ConfigEnvironments
    /\ cfg = NoConfig
    /\ pc = "load"
    /\ now = 0
    /\ startTime = 0
    /\ requests = <<>>
    /\ inflight = {}
    /\ responses = <<>>
    /\ attempts = <<>>
    /\ failures = <<>>
    /\ token = ""
    /\ ret = NoReturn
    /\ openBodies = {}
    /\ deferred = <<>>
    /\ caller = "config"
    /\ calls = 0
    /\ optFns = <<>>
    /\ built = NotBuilt
    /\ OneCall
    /\ NoDbCall
    /\ NewModel
    /\ pending = <<>>

ConfigNext == LoadConfig

ConfigSpec == ConfigInit /\ [][ConfigNext]_vars

(***************************************************************************)
(* Two GetCredentials calls on one Config, from two goroutines.  The       *)
(* variables of the credential resolution hold the locals of the call that *)
(* steps; the locals of the other call are parked.  The scheduler may      *)
(* switch between the calls before any step.  The Config selects IMDS     *)
(* version "v2", the flow with the most locals (the session token), so the *)
(* v1 flow is never entered.                                               *)
(***************************************************************************)
ConcurrentEnvironments ==
    [AWS_ACCESS_KEY_ID : {""},
     AWS_SECRET_ACCESS_KEY : {""},
     AWS_SESSION_TOKEN : {""},
     AWS_USE_IMDS : {""},
     AWS_IMDS_VERSION : {"v2"},
     AWS_ECS_METADATA_ENDPOINT : {""},
     AWS_CONTAINER_CREDENTIALS_RELATIVE_URI : {""},
     AWS_REGION : {""},
     AWS_DEFAULT_REGION : {""},
     AWS_PROFILE : {""},
     AWS_DYNAMODB_ENDPOINT : {""},
     HOME : {"/home/dev"}]

\* the locals of a call that has not started
NewCall ==
    [pc |-> "ready", startTime |-> 0, requests |-> <<>>, inflight |-> {},
     responses |-> <<>>, attempts |-> <<>>, failures |-> <<>>, token |-> "",
     ret |-> NoReturn, openBodies |-> {}, deferred |-> <<>>]

\* variant: the result is kept in one place that both calls write
LocalsOfCall_SharedResult ==
    [pc |-> pc, startTime |-> startTime, requests |-> requests,
     inflight |-> inflight, responses |-> responses, attempts |-> attempts,
     failures |-> failures, token |-> token, ret |-> parked.ret,
     openBodies |-> openBodies, deferred |-> deferred]

\* the locals of the call that steps: everything GetCredentials and its
\* strategies declare
LocalsOfCall ==
    [pc |-> pc, startTime |-> startTime, requests |-> requests,
     inflight |-> inflight, responses |-> responses, attempts |-> attempts,
     failures |-> failures, token |-> token, ret |-> ret,
     openBodies |-> openBodies, deferred |-> deferred]

ConcurrentInit ==
    /\ env \in ConcurrentEnvironments
    /\ cfg = LoadConfigOf(env)
    /\ pc = "ready"
    /\ now = 0
    /\ startTime = 0
    /\ requests = <<>>
    /\ inflight = {}
    /\ responses = <<>>
    /\ attempts = <<>>
    /\ failures = <<>>
    /\ token = ""
    /\ ret = NoReturn
    /\ openBodies = {}
    /\ deferred = <<>>
    /\ caller = "goroutines"
    /\ calls = 0
    /\ optFns = <<>>
    /\ built = NotBuilt
    /\ active = 1
    /\ parked = NewCall
    /\ NoDbCall
    /\ NewModel
    /\ pending = <<>>

\* the scheduler runs the other goroutine
Switch ==
    /\ caller = "goroutines"
    /\ active' = 3 - active
    /\ parked' = LocalsOfCall
    /\ pc' = parked.pc
    /\ startTime' = parked.startTime
    /\ requests' = parked.requests
    /\ inflight' = parked.inflight
    /\ responses' = parked.responses
    /\ attempts' = parked.attempts
    /\ failures' = parked.failures
    /\ token' = parked.token
    /\ ret' = parked.ret
    /\ openBodies' = parked.openBodies
    /\ deferred' = parked.deferred
    /\ UNCHANGED <<env, cfg, now, clientVars, dbVars, uiVars>>

ConcurrentNext ==
    \/ GetCredentials
    \/ TryECS
    \/ TryIMDS
    \/ Exhaust
    \/ RequestTimeout
    \/ TransportError
    \/ RespondNotOK
    \/ RespondBadBody
    \/ TokenReceived
    \/ RoleReceived
    \/ CredentialsReceived
    \/ Switch

ConcurrentSpec == ConcurrentInit /\ [][ConcurrentNext]_vars

(***************************************************************************)
(* createDynamoDBClient (pkg/db), as NewDynamoClient runs it after         *)
(* LoadConfig                                                              *)
(***************************************************************************)
ClientEnvironments ==
    [AWS_ACCESS_KEY_ID : AccessKeyValues,
     AWS_SECRET_ACCESS_KEY : SecretKeyValues,
     AWS_SESSION_TOKEN : SessionTokenValues,
     AWS_USE_IMDS : {"", "false"},
     AWS_IMDS_VERSION : {"", "auto"},
     AWS_ECS_METADATA_ENDPOINT : ECSEndpointValues,
     AWS_CONTAINER_CREDENTIALS_RELATIVE_URI : RelativeURIValues,
     AWS_REGION : {""},
     AWS_DEFAULT_REGION : {""},
     AWS_PROFILE : {""},
     AWS_DYNAMODB_ENDPOINT : DynamoEndpointValues,
     HOME : {"/home/dev"}]

RegionOption(c) == [opt |-> "WithRegion", region |-> c.Region]

EndpointOption(c) ==
    [opt |-> "WithEndpointResolverWithOptions",
     url |-> c.Endpoint, signingRegion |-> c.Region]

\* optFns before the credentials are looked at
BaseOptions(c) ==
    IF c.Endpoint # "" THEN <<RegionOption(c), EndpointOption(c)>>
    ELSE <<RegionOption(c)>>

\* if cfg.UseIMDS || cfg.UseECSMetadata
ShouldResolve(c) == c.UseIMDS \/ c.UseECSMetadata

\* variant: the session token is passed where the secret belongs
StaticProvider_SwappedArguments(creds) ==
    [opt |-> "WithCredentialsProvider",
     AccessKeyID |-> creds.AccessKeyID,
     SecretAccessKey |-> creds.SessionToken,
     SessionToken |-> creds.SecretAccessKey]

\* credentials.NewStaticCredentialsProvider(key, secret, session)
StaticProvider(creds) ==
    [opt |-> "WithCredentialsProvider",
     AccessKeyID |-> creds.AccessKeyID,
     SecretAccessKey |-> creds.SecretAccessKey,
     SessionToken |-> creds.SessionToken]

\* if err == nil && creds != nil
ProviderWanted(r) == r.err = "" /\ r.creds # Nil

ClientInit ==
    /\ env \in ClientEnvironments
    /\ cfg = NoConfig
    /\ pc = "load"
    /\ now \in 0..MaxStart
    /\ startTime = 0
    /\ requests = <<>>
    /\ inflight = {}
    /\ responses = <<>>
    /\ attempts = <<>>
    /\ failures = <<>>
    /\ token = ""
    /\ ret = NoReturn
    /\ openBodies = {}
    /\ deferred = <<>>
    /\ caller = "client"
    /\ calls = 0
    /\ optFns = <<>>
    /\ built = NotBuilt
    /\ OneCall
    /\ NoDbCall
    /\ NewModel
    /\ pending = <<>>

\* entry of createDynamoDBClient, up to the call of cfg.GetCredentials
CreateClient ==
    /\ pc = "create"
    /\ optFns' = BaseOptions(cfg)
    /\ pc' = IF ShouldResolve(cfg) THEN "ready" ELSE "sdk"
    /\ UNCHANGED <<caller, calls, built, dbVars, uiVars, concVars>>
    /\ UNCHANGED <<env, cfg, now, startTime, requests, inflight, responses,
                   attempts, failures, token, ret>>
    /\ UNCHANGED bodyVars

\* cfg.GetCredentials returned to createDynamoDBClient
UseCredentials ==
    /\ pc = "done"
    /\ caller = "client"
    /\ optFns' = IF ProviderWanted(ret)
                 THEN Append(optFns, StaticProvider(ret.creds))
                 ELSE optFns
    /\ pc' = "sdk"
    /\ UNCHANGED <<caller, calls, built, dbVars, uiVars, concVars>>
    /\ UNCHANGED <<env, cfg, now, startTime, requests, inflight, responses,
                   attempts, failures, token, ret>>
    /\ UNCHANGED bodyVars

\* config.LoadDefaultConfig(ctx, optFns...) and the return
LoadDefaultConfig ==
    /\ pc = "sdk"
    /\ \E ok \in BOOLEAN :
          built' = IF ok
                   THEN [done |-> TRUE, client |-> [dynamodb |-> TRUE],
                         err |-> "", options |-> optFns]
                   ELSE [done |-> TRUE, client |-> Nil,
                         err |-> "failed to load AWS SDK config", options |-> optFns]
    /\ pc' = "built"
    /\ UNCHANGED <<caller, calls, optFns, dbVars, uiVars, concVars>>
    /\ UNCHANGED <<env, cfg, now, startTime, requests, inflight, responses,
                   attempts, failures, token, ret>>
    /\ UNCHANGED bodyVars

ClientNext ==
    \/ Next
    \/ CreateClient
    \/ UseCredentials
    \/ LoadDefaultConfig

ClientSpec == ClientInit /\ [][ClientNext]_vars

(***************************************************************************)
(* DynamoClient.ListTables and DynamoClient.DescribeTable (pkg/db).  Each  *)
(* call of the DynamoDB API is a position: the API answers a page, a       *)
(* table, or an error.                                                     *)
(***************************************************************************)
MaxPages == 3          \* ListTables fetches at most MaxPages pages

\* no credential resolution and no client construction is running
ProcessIdle ==
    /\ env \in {e \in Environments :
                  \A f \in DOMAIN e : f = "HOME" \/ e[f] = ""}
    /\ cfg = NoConfig
    /\ pc = "off"
    /\ now = 0
    /\ startTime = 0
    /\ requests = <<>>
    /\ inflight = {}
    /\ responses = <<>>
    /\ attempts = <<>>
    /\ failures = <<>>
    /\ token = ""
    /\ ret = NoReturn
    /\ openBodies = {}
    /\ deferred = <<>>
    /\ caller = "none"
    /\ calls = 0
    /\ optFns = <<>>
    /\ built = NotBuilt
    /\ OneCall

SDKClient == [dynamodb |-> TRUE]

MockTables == <<"Users", "Products", "Orders">>

\* names a DescribeTable caller may ask for
AskedNames == {"Users", "Products", "Orders", "Logs", ""}

\* pages of names the API may answer
PageNames == {<<>>, <<"Logs">>, <<"Orders">>, <<"Events", "Users">>}

Range(q) == {q[k] : k \in DOMAIN q}

\* resp.LastEvaluatedTableName of a page: nil, or one of its names
LastEvaluated(names) == {Nil} \cup {[name |-> n] : n \in Range(names)}

NotFound(name) == [msg |-> "table not found: " \o name]

Key(attr, type) == [AttributeName |-> attr, KeyType |-> type]

Index(name, schema) == [IndexName |-> name, KeySchema |-> schema]

Returns(value, err) == [returned |-> TRUE, value |-> value, err |-> err]

\* variant: a page error returns what was fetched before it
OnPageError_KeepsFetched(fetched) == Returns(fetched, Nil)

\* if err != nil { return []string{"Users", "Products", "Orders"}, nil }
OnPageError(fetched) == Returns(MockTables, Nil)

\* variant: a page is put in front of the earlier ones
AppendPage_InFront(fetched, names) == names \o fetched

\* tableNames = append(tableNames, resp.TableNames...)
AppendPage(fetched, names) == fetched \o names

\* variant: an unknown name is answered with the Users table
getMockTableInfo_DefaultsToUsers(tableName) ==
    Returns([TableName |-> "Users",
             KeySchema |-> <<Key("UserID", "HASH"), Key("Email", "RANGE")>>,
             AttributeDefinitions |->
                 [UserID |-> "S", Email |-> "S", Username |-> "S", CreatedAt |-> "N"],
             GSIs |-> <<Index("UsernameIndex", <<Key("Username", "HASH")>>)>>,
             LSIs |-> <<Index("CreatedAtIndex",
                              <<Key("UserID", "HASH"), Key("CreatedAt", "RANGE")>>)>>],
            Nil)

getMockTableInfo(tableName) ==
    CASE tableName = "Users" ->
           Returns([TableName |-> "Users",
                    KeySchema |-> <<Key("UserID", "HASH"), Key("Email", "RANGE")>>,
                    AttributeDefinitions |->
                        [UserID |-> "S", Email |-> "S", Username |-> "S",
                         CreatedAt |-> "N"],
                    GSIs |-> <<Index("UsernameIndex", <<Key("Username", "HASH")>>)>>,
                    LSIs |-> <<Index("CreatedAtIndex",
                                     <<Key("UserID", "HASH"),
                                       Key("CreatedAt", "RANGE")>>)>>],
                   Nil)
      [] tableName = "Products" ->
           Returns([TableName |-> "Products",
                    KeySchema |-> <<Key("ProductID", "HASH")>>,
                    AttributeDefinitions |->
                        [ProductID |-> "S", Category |-> "S", Price |-> "N",
                         CreateDate |-> "S"],
                    GSIs |-> <<Index("CategoryPriceIndex",
                                     <<Key("Category", "HASH"),
                                       Key("Price", "RANGE")>>)>>,
                    LSIs |-> <<>>],
                   Nil)
      [] tableName = "Orders" ->
           Returns([TableName |-> "Orders",
                    KeySchema |-> <<Key("CustomerID", "HASH"), Key("OrderID", "RANGE")>>,
                    AttributeDefinitions |->
                        [CustomerID |-> "S", OrderID |-> "S", OrderDate |-> "S",
                         Status |-> "S"],
                    GSIs |-> <<Index("StatusOrderDateIndex",
                                     <<Key("Status", "HASH"),
                                       Key("OrderDate", "RANGE")>>)>>,
                    LSIs |-> <<Index("OrderDateIndex",
                                     <<Key("CustomerID", "HASH"),
                                       Key("OrderDate", "RANGE")>>)>>],
                   Nil)
      [] OTHER -> Returns(Nil, NotFound(tableName))

\* resp.Table values the API may answer for a table name
ServiceTables(name) ==
    {[TableName |-> name,
      KeySchema |-> <<Key("pk", "HASH")>>,
      AttributeDefinitions |-> <<[AttributeName |-> "pk", AttributeType |-> "S"]>>,
      GlobalSecondaryIndexes |-> g,
      LocalSecondaryIndexes |-> <<>>] :
        g \in {<<>>, <<Index("byOwner", <<Key("owner", "HASH")>>)>>}}

convertKeySchema(schema) ==
    [k \in DOMAIN schema |->
        [AttributeName |-> schema[k].AttributeName, KeyType |-> schema[k].KeyType]]

\* a map from attribute name to type: a later definition of a name wins
convertAttrDefinitions(attrs) ==
    [n \in {attrs[k].AttributeName : k \in DOMAIN attrs} |->
        LET last == CHOOSE k \in DOMAIN attrs :
                       /\ attrs[k].AttributeName = n
                       /\ \A j \in DOMAIN attrs : attrs[j].AttributeName = n => j <= k
        IN attrs[last].AttributeType]

convertIndexes(idx) ==
    [k \in DOMAIN idx |->
        [IndexName |-> idx[k].IndexName, KeySchema |-> convertKeySchema(idx[k].KeySchema)]]

\* the TableInfo DescribeTable builds from resp.Table
TableInfoOf(table) ==
    [TableName |-> table.TableName,
     KeySchema |-> convertKeySchema(table.KeySchema),
     AttributeDefinitions |-> convertAttrDefinitions(table.AttributeDefinitions),
     GSIs |-> convertIndexes(table.GlobalSecondaryIndexes),
     LSIs |-> convertIndexes(table.LocalSecondaryIndexes)]

DbInit ==
    /\ ProcessIdle
    /\ NewModel
    /\ pending = <<>>
    /\ client \in {Nil, SDKClient}
    /\ dbpc = "idle"
    /\ dbCall = [op |-> "", name |-> ""]
    /\ tableNames = <<>>
    /\ nextToken = Nil
    /\ apiLog = <<>>
    /\ dbRet = NoReturn

\* entry of ListTables, up to the first d.client.ListTables
ListTables ==
    /\ dbpc = "idle"
    /\ dbCall' = [op |-> "ListTables", name |-> ""]
    /\ IF client = Nil
       THEN /\ dbRet' = Returns(MockTables, Nil)
            /\ dbpc' = "returned"
       ELSE /\ dbpc' = "page"
            /\ UNCHANGED dbRet
    /\ UNCHANGED <<client, tableNames, nextToken, apiLog>>
    /\ UNCHANGED <<credVars, clientVars, uiVars, concVars>>

\* d.client.ListTables answered a page; the loop appends it and goes on or returns
ListTablesPage ==
    /\ dbpc = "page"
    /\ \E names \in PageNames : \E last \in LastEvaluated(names) :
          /\ Len(apiLog) < MaxPages - 1 \/ last = Nil
          /\ apiLog' = Append(apiLog, [ok |-> TRUE, start |-> nextToken,
                                       names |-> names, last |-> last])
          /\ tableNames' = AppendPage(tableNames, names)
          /\ nextToken' = last
          /\ IF last = Nil
             THEN /\ dbRet' = Returns(AppendPage(tableNames, names), Nil)
                  /\ dbpc' = "returned"
             ELSE UNCHANGED <<dbRet, dbpc>>
    /\ UNCHANGED <<client, dbCall>>
    /\ UNCHANGED <<credVars, clientVars, uiVars, concVars>>

\* d.client.ListTables returned an error
ListTablesPageFails ==
    /\ dbpc = "page"
    /\ apiLog' = Append(apiLog, [ok |-> FALSE, start |-> nextToken,
                                 names |-> <<>>, last |-> Nil])
    /\ dbRet' = OnPageError(tableNames)
    /\ dbpc' = "returned"
    /\ UNCHANGED <<client, dbCall, tableNames, nextToken>>
    /\ UNCHANGED <<credVars, clientVars, uiVars, concVars>>

\* entry of DescribeTable, up to d.client.DescribeTable
DescribeTable ==
    /\ dbpc = "idle"
    /\ \E tableName \in AskedNames :
          /\ dbCall' = [op |-> "DescribeTable", name |-> tableName]
          /\ IF client = Nil
             THEN /\ dbRet' = getMockTableInfo(tableName)
                  /\ dbpc' = "returned"
             ELSE /\ dbpc' = "describe"
                  /\ UNCHANGED dbRet
    /\ UNCHANGED <<client, tableNames, nextToken, apiLog>>
    /\ UNCHANGED <<credVars, clientVars, uiVars, concVars>>

\* d.client.DescribeTable returned an error
DescribeTableFails ==
    /\ dbpc = "describe"
    /\ apiLog' = Append(apiLog, [ok |-> FALSE, table |-> Nil])
    /\ dbRet' = getMockTableInfo(dbCall.name)
    /\ dbpc' = "returned"
    /\ UNCHANGED <<client, dbCall, tableNames, nextToken>>
    /\ UNCHANGED <<credVars, clientVars, uiVars, concVars>>

\* d.client.DescribeTable answered
DescribeTableAnswers ==
    /\ dbpc = "describe"
    /\ \E table \in {Nil} \cup ServiceTables(dbCall.name) :
          /\ apiLog' = Append(apiLog, [ok |-> TRUE, table |-> table])
          /\ dbRet' = IF table = Nil
                      THEN Returns(Nil, NotFound(dbCall.name))
                      ELSE Returns(TableInfoOf(table), Nil)
    /\ dbpc' = "returned"
    /\ UNCHANGED <<client, dbCall, tableNames, nextToken>>
    /\ UNCHANGED <<credVars, clientVars, uiVars, concVars>>

DbNext ==
    \/ ListTables
    \/ ListTablesPage
    \/ ListTablesPageFails
    \/ DescribeTable
    \/ DescribeTableFails
    \/ DescribeTableAnswers

DbSpec == DbInit /\ [][DbNext]_vars

(***************************************************************************)
(* The terminal UI (pkg/ui): Model.Update handles one message at a time.   *)
(* A command returned by Init or Update runs on its own and reports with   *)
(* one message, in any order with the other messages.                      *)
(***************************************************************************)
MaxPending == 2        \* commands that may be running at once

\* what ListTables may return to loadTables
TableLists == {<<>>, MockTables, <<"Logs", "Users">>}

WindowSizes == {[Width |-> 80, Height |-> 24]}

QuitKeys == {"ctrl+c", "q"}
UpKeys == {"up", "k"}
DownKeys == {"down", "j"}
OtherKeys == {"x"}

\* func loadTables() tea.Msg
loadTables == [cmd |-> "loadTables", tableName |-> ""]

\* func loadTableInfo(tableName string) tea.Cmd
loadTableInfo(tableName) == [cmd |-> "loadTableInfo", tableName |-> tableName]

\* what ListTables may return: any list, never an error
ListTablesResults == {Returns(ts, Nil) : ts \in TableLists}

\* what DescribeTable(tableName) may return
DescribeTableResults(tableName) ==
    {getMockTableInfo(tableName), Returns(Nil, NotFound(tableName))}
        \cup {Returns(TableInfoOf(t), Nil) : t \in ServiceTables(tableName)}

\* variant: Tab in the details view goes back to the list
TabFrom_SkipsIndexes(mode) ==
    CASE mode = tableListMode -> tableViewMode
      [] mode = tableViewMode -> tableListMode
      [] OTHER -> tableListMode

\* switch m.viewMode, under case "tab"
TabFrom(mode) ==
    CASE mode = tableListMode -> tableViewMode
      [] mode = tableViewMode -> indexViewMode
      [] OTHER -> tableListMode

Running == quit # "exited"

\* variant: the cursor may step past the last table
CanMoveDown_PastTheEnd(selected, n) == selected < n

\* if m.selectedTable < len(m.tables)-1
CanMoveDown(selected, n) == selected < n - 1

Without(q, i) == SubSeq(q, 1, i - 1) \o SubSeq(q, i + 1, Len(q))

UIInit ==
    /\ ProcessIdle
    /\ NoDbCall
    /\ NewModel
    /\ pending = <<loadTables>>

\* case "ctrl+c", "q": return m, tea.Quit
KeyQuit ==
    /\ Running
    /\ \E key \in QuitKeys : lastMsg' = key
    /\ quit' = "requested"
    /\ UNCHANGED <<tables, selectedTable, viewMode, tableData, width, height,
                   loading, error, pending>>
    /\ UNCHANGED <<credVars, clientVars, dbVars, concVars>>

\* the program ends on the message of tea.Quit
QuitMsg ==
    /\ quit = "requested"
    /\ quit' = "exited"
    /\ lastMsg' = "QuitMsg"
    /\ UNCHANGED <<tables, selectedTable, viewMode, tableData, width, height,
                   loading, error, pending>>
    /\ UNCHANGED <<credVars, clientVars, dbVars, concVars>>

\* case "tab"
KeyTab ==
    /\ Running
    /\ lastMsg' = "tab"
    /\ IF viewMode = tableListMode
       THEN IF Len(tables) > 0
            THEN /\ Len(pending) < MaxPending
                 /\ viewMode' = TabFrom(viewMode)
                 /\ pending' = Append(pending, loadTableInfo(tables[selectedTable + 1]))
            ELSE UNCHANGED <<viewMode, pending>>
       ELSE /\ viewMode' = TabFrom(viewMode)
            /\ UNCHANGED pending
    /\ UNCHANGED <<tables, selectedTable, tableData, width, height,
                   loading, error, quit>>
    /\ UNCHANGED <<credVars, clientVars, dbVars, concVars>>

\* case "up", "k"
KeyUp ==
    /\ Running
    /\ \E key \in UpKeys : lastMsg' = key
    /\ selectedTable' = IF selectedTable > 0 THEN selectedTable - 1 ELSE selectedTable
    /\ UNCHANGED <<tables, viewMode, tableData, width, height,
                   loading, error, pending, quit>>
    /\ UNCHANGED <<credVars, clientVars, dbVars, concVars>>

\* case "down", "j"
KeyDown ==
    /\ Running
    /\ \E key \in DownKeys : lastMsg' = key
    /\ selectedTable' = IF CanMoveDown(selectedTable, Len(tables))
                        THEN selectedTable + 1 ELSE selectedTable
    /\ UNCHANGED <<tables, viewMode, tableData, width, height,
                   loading, error, pending, quit>>
    /\ UNCHANGED <<credVars, clientVars, dbVars, concVars>>

\* case "enter"
KeyEnter ==
    /\ Running
    /\ lastMsg' = "enter"
    /\ IF viewMode = tableListMode /\ Len(tables) > 0
       THEN /\ Len(pending) < MaxPending
            /\ viewMode' = tableViewMode
            /\ pending' = Append(pending, loadTableInfo(tables[selectedTable + 1]))
       ELSE UNCHANGED <<viewMode, pending>>
    /\ UNCHANGED <<tables, selectedTable, tableData, width, height,
                   loading, error, quit>>
    /\ UNCHANGED <<credVars, clientVars, dbVars, concVars>>

\* a key no case names
KeyOther ==
    /\ Running
    /\ \E key \in OtherKeys : lastMsg' = key
    /\ UNCHANGED <<tables, selectedTable, viewMode, tableData, width, height,
                   loading, error, pending, quit>>
    /\ UNCHANGED <<credVars, clientVars, dbVars, concVars>>

\* case tea.WindowSizeMsg
WindowSizeMsg ==
    /\ Running
    /\ lastMsg' = "WindowSizeMsg"
    /\ \E msg \in WindowSizes :
          /\ width' = msg.Width
          /\ height' = msg.Height
    /\ UNCHANGED <<tables, selectedTable, viewMode, tableData,
                   loading, error, pending, quit>>
    /\ UNCHANGED <<credVars, clientVars, dbVars, concVars>>

\* loadTables reports its tables: case tablesLoadedMsg
tablesLoadedMsg ==
    /\ Running
    /\ \E i \in DOMAIN pending : \E r \in ListTablesResults :
          /\ pending[i] = loadTables
          /\ r.err = Nil
          /\ pending' = Without(pending, i)
          /\ tables' = r.value
    /\ loading' = FALSE
    /\ lastMsg' = "tablesLoadedMsg"
    /\ UNCHANGED <<selectedTable, viewMode, tableData, width, height, error, quit>>
    /\ UNCHANGED <<credVars, clientVars, dbVars, concVars>>

\* loadTableInfo reports its table: case tableInfoLoadedMsg
tableInfoLoadedMsg ==
    /\ Running
    /\ \E i \in DOMAIN pending :
          /\ pending[i].cmd = "loadTableInfo"
          /\ \E r \in DescribeTableResults(pending[i].tableName) :
                /\ r.err = Nil
                /\ tableData' = r.value
          /\ pending' = Without(pending, i)
    /\ loading' = FALSE
    /\ lastMsg' = "tableInfoLoadedMsg"
    /\ UNCHANGED <<tables, selectedTable, viewMode, width, height, error, quit>>
    /\ UNCHANGED <<credVars, clientVars, dbVars, concVars>>

\* a command reports an error: case errorMsg
errorMsg ==
    /\ Running
    /\ \E i \in DOMAIN pending :
          /\ \E r \in IF pending[i].cmd = "loadTables" THEN ListTablesResults
                      ELSE DescribeTableResults(pending[i].tableName) :
                /\ r.err # Nil
                /\ error' = r.err
          /\ pending' = Without(pending, i)
    /\ loading' = FALSE
    /\ lastMsg' = "errorMsg"
    /\ UNCHANGED <<tables, selectedTable, viewMode, tableData, width, height, quit>>
    /\ UNCHANGED <<credVars, clientVars, dbVars, concVars>>

UINext ==
    \/ KeyQuit
    \/ QuitMsg
    \/ KeyTab
    \/ KeyUp
    \/ KeyDown
    \/ KeyEnter
    \/ KeyOther
    \/ WindowSizeMsg
    \/ tablesLoadedMsg
    \/ tableInfoLoadedMsg
    \/ errorMsg

UISpec == UIInit /\ [][UINext]_vars

(***************************************************************************)
(* Vocabulary of the properties                                            *)
(***************************************************************************)
Entered == pc \notin {"load", "ready"}
Returned == pc = "done"
Succeeded == Returned /\ ret.err = ""
EnvKey == env.AWS_ACCESS_KEY_ID
EnvSecret == env.AWS_SECRET_ACCESS_KEY
EnvURI == env.AWS_CONTAINER_CREDENTIALS_RELATIVE_URI
BothInEnv == EnvKey # "" /\ EnvSecret # ""
Attempted(s) == \E k \in DOMAIN attempts : attempts[k] = s
Failed(s) == \E k \in DOMAIN failures : failures[k].strat = s
FailedAt(s, step) ==
    \E k \in DOMAIN failures : failures[k].strat = s /\ failures[k].step = step
FailedBy(s, step, cause) ==
    \E k \in DOMAIN failures :
        failures[k].strat = s /\ failures[k].step = step /\ failures[k].cause = cause
Rank(s) ==
    CASE s = "env" -> 1 [] s = "ecs" -> 2 [] s = "v2" -> 3 [] OTHER -> 4
Applicable(s) ==
    CASE s = "env" -> TRUE
      [] s = "ecs" -> cfg.UseECSMetadata
      [] s = "v2" -> cfg.UseIMDS /\ cfg.IMDSVersion # "v1"
      [] OTHER -> cfg.UseIMDS /\ cfg.IMDSVersion # "v2"
\* the credentials endpoint of the strategy that ran last answered 200 with JSON
SourceAnswered ==
    /\ Len(responses) > 0
    /\ responses[Len(responses)].kind = "ok"
    /\ requests[responses[Len(responses)].req].step = "creds"
AnsweredBody == responses[Len(responses)].body
AnsweredBy == requests[responses[Len(responses)].req].strat
\* the RFC 3339 timestamps among the endpoint's Expiration values, with the
\* instant each denotes
Timestamps == {<<"1970-01-01T02:00:00Z", 7200>>, <<"1970-01-01T00:00:10Z", 10>>}
IsTimestamp(x) == \E p \in Timestamps : p[1] = x

(***************************************************************************)
(* C1: when AWS_ACCESS_KEY_ID and AWS_SECRET_ACCESS_KEY are both           *)
(* non-empty, GetCredentials returns exactly those two values and          *)
(* AWS_SESSION_TOKEN, whatever the Config, and issues no request.          *)
(***************************************************************************)
C1_EnvCredentialsWin ==
    (Entered /\ BothInEnv) =>
        /\ Returned
        /\ ret.err = ""
        /\ ret.creds.AccessKeyID = EnvKey
        /\ ret.creds.SecretAccessKey = EnvSecret
        /\ ret.creds.SessionToken = env.AWS_SESSION_TOKEN
        /\ requests = <<>>
        /\ inflight = {}

C1_Witness ==
    /\ Returned /\ BothInEnv /\ env.AWS_SESSION_TOKEN # ""
    /\ cfg.UseIMDS /\ cfg.UseECSMetadata /\ EnvURI # ""
    /\ ret.creds.SessionToken = "envtoken"

(***************************************************************************)
(* C2 as stated: with AWS_IMDS_VERSION unset, a failed v2 token request    *)
(* is followed by an attempt of the v1 flow before the exhaustion error.   *)
(***************************************************************************)
C2_UnsetVersionFallsBack ==
    (Returned /\ env.AWS_IMDS_VERSION = "" /\ FailedAt("v2", "token")) =>
        Attempted("v1")

(***************************************************************************)
(* C2 amended: with AWS_IMDS_VERSION set to a value other than "v1" and    *)
(* "v2", a failed v2 token request (transport error, timeout, non-200) is  *)
(* followed by an attempt of the v1 flow before the exhaustion error; an   *)
(* unset AWS_IMDS_VERSION is loaded as "v2", and then v1 is never tried.   *)
(***************************************************************************)
C2_OtherVersionFallsBack ==
    /\ (/\ pc \in {"exhaust", "done"}
        /\ env.AWS_IMDS_VERSION \notin {"", "v1", "v2"}
        /\ FailedAt("v2", "token"))
       => (Attempted("v1") /\ \E k \in DOMAIN requests : requests[k].strat = "v1")
    /\ (cfg.loaded /\ env.AWS_IMDS_VERSION = "")
       => (cfg.IMDSVersion = "v2" /\ ~Attempted("v1"))

C2_Witness ==
    /\ Returned /\ ret.err # ""
    /\ env.AWS_IMDS_VERSION = "auto"
    /\ FailedBy("v2", "token", "timeout")
    /\ FailedAt("v1", "role")

(***************************************************************************)
(* C3 as stated: the ECS strategy is attempted (environment credentials    *)
(* absent) exactly when AWS_CONTAINER_CREDENTIALS_RELATIVE_URI is set,     *)
(* and with the variable unset it is never attempted-and-failed.           *)
(***************************************************************************)
C3_ECSGatedByRelativeURI ==
    (Returned /\ ~BothInEnv) =>
        /\ Attempted("ecs") <=> (EnvURI # "")
        /\ (EnvURI = "") => ~Failed("ecs")

(***************************************************************************)
(* C4: the strategies are entered in the order environment, ECS, IMDS      *)
(* (v2 before v1), at most one request is in flight, a strategy is         *)
(* entered only if it is applicable and every earlier one failed, and      *)
(* after a success nothing more is attempted or requested.                 *)
(***************************************************************************)
C4_StrictlySequential ==
    /\ Cardinality(inflight) <= 1
    /\ \A i, j \in DOMAIN attempts : i < j => Rank(attempts[i]) < Rank(attempts[j])
    /\ \A i, j \in DOMAIN requests :
          i < j => Rank(requests[i].strat) <= Rank(requests[j].strat)
    /\ \A k \in DOMAIN attempts :
          /\ Applicable(attempts[k])
          /\ \A j \in 1..(k - 1) : Failed(attempts[j])
    /\ \A i \in inflight :
          /\ i = Len(requests)
          /\ requests[i].strat = attempts[Len(attempts)]
          /\ ~ret.returned
    /\ (ret.returned /\ ret.err = "") =>
          /\ pc = "done"
          /\ inflight = {}
          /\ ret.source = attempts[Len(attempts)]
          /\ ~Failed(ret.source)
          /\ requests # <<>> => requests[Len(requests)].strat = ret.source

C4_Witness ==
    /\ Succeeded /\ ret.source = "v1"
    /\ attempts = <<"env", "ecs", "v2", "v1">>
    /\ Len(requests) = 6

(***************************************************************************)
(* C5: with exactly one of AWS_ACCESS_KEY_ID / AWS_SECRET_ACCESS_KEY set,  *)
(* the environment yields nothing: the lone value is in no result, and     *)
(* the next applicable strategy (ECS if configured, else IMDS if enabled)  *)
(* is entered.                                                             *)
(***************************************************************************)
C5_LoneValueSkipped ==
    (Returned /\ ((EnvKey = "") # (EnvSecret = ""))) =>
        /\ ret.source # "env"
        /\ ~ret.returned \/ ret.err # "" \/
              /\ ret.creds.AccessKeyID \notin ({EnvKey, EnvSecret} \ {""})
              /\ ret.creds.SecretAccessKey \notin ({EnvKey, EnvSecret} \ {""})
        /\ Failed("env")
        /\ cfg.UseECSMetadata => (Len(attempts) >= 2 /\ attempts[2] = "ecs")
        /\ (~cfg.UseECSMetadata /\ cfg.UseIMDS) =>
              (Len(attempts) >= 2 /\ attempts[2] \in {"v1", "v2"})
        /\ (~cfg.UseECSMetadata /\ ~cfg.UseIMDS) => (attempts = <<"env">> /\ ret.err # "")

C5_Witness ==
    /\ Succeeded /\ EnvKey # "" /\ EnvSecret = ""
    /\ ret.source = "ecs" /\ ret.creds.AccessKeyID = "ASIAMETA"

(***************************************************************************)
(* C6: with AWS_USE_IMDS = "false", ECS metadata not configured and no     *)
(* environment credentials, GetCredentials returns nil credentials and     *)
(* the exhaustion error, and issues no request.                            *)
(***************************************************************************)
C6_NothingConfiguredExhausts ==
    (/\ Entered
     /\ env.AWS_USE_IMDS = "false"
     /\ (env.AWS_ECS_METADATA_ENDPOINT = "" \/ EnvURI = "")
     /\ ~BothInEnv) =>
        /\ requests = <<>>
        /\ inflight = {}
        /\ Returned => (ret.creds = Nil /\ ret.err = "unable to locate AWS credentials")

C6_Witness ==
    /\ Returned /\ env.AWS_USE_IMDS = "false" /\ env.AWS_ECS_METADATA_ENDPOINT = ""
    /\ EnvKey # "" /\ EnvSecret = "" /\ ret.creds = Nil

(***************************************************************************)
(* C7: with AWS_IMDS_VERSION = "v1" no request of the secured flow (token  *)
(* PUT, token-bearing GET) is ever issued, whether v1 fails or not.        *)
(***************************************************************************)
C7_V1NeverUsesSecuredFlow ==
    env.AWS_IMDS_VERSION = "v1" =>
        /\ ~Attempted("v2")
        /\ \A k \in DOMAIN requests :
              /\ requests[k].strat # "v2"
              /\ requests[k].method # "PUT"
              /\ requests[k].token = ""

C7_Witness ==
    /\ Returned /\ env.AWS_IMDS_VERSION = "v1" /\ ret.err # ""
    /\ FailedBy("v1", "role", "status") /\ ~cfg.UseECSMetadata

(***************************************************************************)
(* C8: every request carries the 5 second deadline, a request that gets    *)
(* no answer is abandoned when it passes and fails its strategy, and so    *)
(* every GetCredentials call returns (credentials or the exhaustion        *)
(* error): it never blocks forever.                                        *)
(***************************************************************************)
C8_NeverBlocks ==
    /\ [](\A k \in DOMAIN requests : requests[k].timeout = 5)
    /\ [][RequestTimeout =>
            /\ Len(failures') = Len(failures) + 1
            /\ failures'[Len(failures')].cause = "timeout"
            /\ now' = now + 5
            /\ inflight' = {}]_vars
    /\ <>(pc = "done" /\ ret.returned /\ inflight = {})

C8_Witness ==
    /\ Returned /\ ret.err # ""
    /\ FailedBy("ecs", "creds", "timeout")
    /\ FailedBy("v2", "creds", "timeout")
    /\ FailedBy("v1", "creds", "timeout")

(***************************************************************************)
(* C9: when the source answers every step and Expiration is a valid RFC    *)
(* 3339 timestamp, the returned Credentials carry exactly the decoded      *)
(* AccessKeyId, SecretAccessKey and Token, and the decoded instant.        *)
(***************************************************************************)
C9_DecodedCredentialsReturned ==
    (Returned /\ SourceAnswered) =>
        \A p \in Timestamps :
            AnsweredBody.Expiration = p[1] =>
                /\ ret.err = ""
                /\ ret.source = AnsweredBy
                /\ ret.creds = [AccessKeyID |-> AnsweredBody.AccessKeyId,
                                SecretAccessKey |-> AnsweredBody.SecretAccessKey,
                                SessionToken |-> AnsweredBody.Token,
                                Expiration |-> p[2]]

C9_Witness ==
    /\ Succeeded /\ SourceAnswered /\ ret.source = "v2"
    /\ AnsweredBody.Expiration = "1970-01-01T02:00:00Z"
    /\ ret.creds.Expiration = 7200 /\ ret.creds.SessionToken = "metatoken"
    /\ now > startTime

ProviderOptions == {k \in DOMAIN optFns : optFns[k].opt = "WithCredentialsProvider"}

C11_ResolverFailureNotFatal ==
    /\ calls <= 1
    /\ Cardinality(ProviderOptions) <= 1
    /\ ProviderOptions # {} => (ret.returned /\ ret.err = "" /\ pc \in {"sdk", "built"})
    /\ \A k \in ProviderOptions :
          /\ optFns[k].AccessKeyID = ret.creds.AccessKeyID
          /\ optFns[k].SecretAccessKey = ret.creds.SecretAccessKey
          /\ optFns[k].SessionToken = ret.creds.SessionToken
    /\ (pc \in {"sdk", "built"} /\ ret.returned /\ ret.err = "") => ProviderOptions # {}
    /\ pc = "built" =>
          /\ built.done
          /\ built.options = optFns
          /\ built.err \in {"", "failed to load AWS SDK config"}
          /\ (built.err = "") <=> (built.client # Nil)

C11_Witness ==
    /\ pc = "built" /\ calls = 1
    /\ ret.returned /\ ret.err = "unable to locate AWS credentials"
    /\ FailedAt("v2", "token") /\ FailedAt("v1", "role")
    /\ ProviderOptions = {}
    /\ built.client # Nil /\ Len(built.options) = 2

(***************************************************************************)
(* C12: AWS_IMDS_VERSION defaults to "v2".  With the variable unset or     *)
(* empty LoadConfig yields IMDSVersion "v2", and every step of the         *)
(* program (each request issued, each outcome) is a step the program takes *)
(* from the same state with AWS_IMDS_VERSION = "v2", and conversely.       *)
(***************************************************************************)
WithVersion(e, v) == [e EXCEPT !.AWS_IMDS_VERSION = v]

C12_UnsetVersionIsV2 ==
    /\ []((cfg.loaded /\ env.AWS_IMDS_VERSION = "") => cfg.IMDSVersion = "v2")
    /\ [][/\ env.AWS_IMDS_VERSION = "" => NextIn(WithVersion(env, "v2"))
          /\ env.AWS_IMDS_VERSION = "v2" => NextIn(WithVersion(env, ""))]_vars

C12_Witness ==
    /\ env.AWS_IMDS_VERSION = ""
    /\ Returned /\ ret.err = "" /\ ret.source = "v2"
    /\ Len(requests) = 3 /\ ~Attempted("v1")

(***************************************************************************)
(* C14: ListTables never returns an error.  With a nil client, or when a   *)
(* page request fails (also after earlier pages were fetched, whose names  *)
(* are dropped), it returns exactly Users, Products, Orders; only when     *)
(* every page succeeded does it return the pages' names concatenated in    *)
(* the order the pages came.                                               *)
(***************************************************************************)
RECURSIVE Concatenated(_)
Concatenated(log) ==
    IF log = <<>> THEN <<>>
    ELSE Concatenated(SubSeq(log, 1, Len(log) - 1)) \o log[Len(log)].names

APIFailed == \E k \in DOMAIN apiLog : ~apiLog[k].ok

ListTablesReturned == dbpc = "returned" /\ dbCall.op = "ListTables"

C14_ListTablesNeverFails ==
    ListTablesReturned =>
        /\ dbRet.err = Nil
        /\ (client = Nil \/ APIFailed) => dbRet.value = <<"Users", "Products", "Orders">>
        /\ (client # Nil /\ ~APIFailed) =>
              /\ dbRet.value = Concatenated(apiLog)
              /\ apiLog[Len(apiLog)].last = Nil
              /\ \A k \in 1..(Len(apiLog) - 1) : apiLog[k].last # Nil

C14_Witness ==
    /\ ListTablesReturned
    /\ Len(apiLog) = 3
    /\ apiLog[1].ok /\ apiLog[1].names # <<>>
    /\ apiLog[2].ok /\ apiLog[2].names # <<>>
    /\ ~apiLog[3].ok
    /\ dbRet.value = MockTables

(***************************************************************************)
(* C15: with a nil client, or when the DescribeTable API call fails,       *)
(* DescribeTable(name) returns the mock table info whose TableName is name *)
(* for Users, Products and Orders (Users with 2 key-schema elements, 1 GSI *)
(* and 1 LSI), and a nil info with a "table not found" error for every     *)
(* other name.                                                             *)
(***************************************************************************)
DescribeTableReturned == dbpc = "returned" /\ dbCall.op = "DescribeTable"

C15_DescribeFallsBackToMock ==
    (DescribeTableReturned /\ (client = Nil \/ APIFailed)) =>
        IF dbCall.name \in {"Users", "Products", "Orders"}
        THEN /\ dbRet.err = Nil
             /\ dbRet.value # Nil
             /\ dbRet.value.TableName = dbCall.name
             /\ dbCall.name = "Users" =>
                   /\ Len(dbRet.value.KeySchema) = 2
                   /\ Len(dbRet.value.GSIs) = 1
                   /\ Len(dbRet.value.LSIs) = 1
        ELSE /\ dbRet.value = Nil
             /\ dbRet.err = [msg |-> "table not found: " \o dbCall.name]

C15_Witness ==
    /\ DescribeTableReturned
    /\ client # Nil /\ APIFailed
    /\ dbCall.name = "Users"
    /\ dbRet.value.TableName = "Users"

(***************************************************************************)
(* C13: the view mode starts in the table list and changes only on Tab     *)
(* and Enter.  Tab cycles table list -> table details -> indexes -> table  *)
(* list; Enter moves table list -> table details and does nothing in the   *)
(* other two views; both leave the table list, issuing a load for          *)
(* tables[selectedTable], only when at least one table is loaded.  Every   *)
(* other message leaves the view mode unchanged.                           *)
(***************************************************************************)
Selected == tables[selectedTable + 1]

LoadIssuedFor(name) ==
    pending' = Append(pending, [cmd |-> "loadTableInfo", tableName |-> name])

C13_ViewModeStep ==
    /\ lastMsg' = "tab" =>
          viewMode' = CASE viewMode = "tables" ->
                             IF Len(tables) > 0 THEN "table" ELSE "tables"
                        [] viewMode = "table" -> "index"
                        [] viewMode = "index" -> "tables"
    /\ lastMsg' = "enter" =>
          viewMode' = IF viewMode = "tables" /\ Len(tables) > 0
                      THEN "table" ELSE viewMode
    /\ lastMsg' \notin {"tab", "enter"} => viewMode' = viewMode
    /\ (viewMode = "tables" /\ viewMode' # "tables") =>
          /\ Len(tables) > 0
          /\ LoadIssuedFor(Selected)
    /\ ~(viewMode = "tables" /\ viewMode' # "tables") => pending' \in
          {pending} \cup {Without(pending, i) : i \in DOMAIN pending}

C13_ViewModeOnlyByTabAndEnter ==
    /\ viewMode = "tables"
    /\ [][C13_ViewModeStep]_vars

C13_Witness ==
    /\ viewMode = "tables" /\ lastMsg = "tab"
    /\ Len(tables) > 0 /\ selectedTable = 1
    /\ tableData # Nil /\ tableData.TableName = tables[2]

(***************************************************************************)
(* C16: LoadConfig never fails; Region is AWS_REGION if non-empty, else    *)
(* AWS_DEFAULT_REGION if non-empty, else "us-east-1"; Profile is           *)
(* AWS_PROFILE if non-empty, else "default".                               *)
(***************************************************************************)
C16_RegionAndProfileDefaults ==
    /\ pc # "load" => cfg.loaded
    /\ cfg.loaded =>
          /\ env.AWS_REGION # "" => cfg.Region = env.AWS_REGION
          /\ (env.AWS_REGION = "" /\ env.AWS_DEFAULT_REGION # "") =>
                cfg.Region = env.AWS_DEFAULT_REGION
          /\ (env.AWS_REGION = "" /\ env.AWS_DEFAULT_REGION = "") =>
                cfg.Region = "us-east-1"
          /\ env.AWS_PROFILE # "" => cfg.Profile = env.AWS_PROFILE
          /\ env.AWS_PROFILE = "" => cfg.Profile = "default"

C16_Witness ==
    /\ cfg.loaded
    /\ env.AWS_REGION # "" /\ env.AWS_DEFAULT_REGION # ""
    /\ cfg.Region = "us-west-2"
    /\ env.AWS_PROFILE = "" /\ cfg.Profile = "default"

(***************************************************************************)
(* C17: GetCredentials returns an error exactly when every applicable      *)
(* strategy failed; the failure of an earlier strategy does not keep a     *)
(* later applicable one from being attempted nor its credentials from      *)
(* being returned; the error is always the terminal "unable to locate AWS  *)
(* credentials", never a strategy's own error.                             *)
(***************************************************************************)
Strategies == {"env", "ecs", "v2", "v1"}

C17_ErrorOnlyWhenAllFailed ==
    Returned =>
        /\ (ret.err # "") <=> (\A s \in Strategies : Applicable(s) => Failed(s))
        /\ ret.err # "" =>
              /\ ret.err = "unable to locate AWS credentials"
              /\ ret.creds = Nil
              /\ \A s \in Strategies : Applicable(s) => Attempted(s)
        /\ ret.err = "" =>
              /\ ret.creds # Nil
              /\ ~Failed(ret.source)
              /\ \A s \in Strategies :
                    (Applicable(s) /\ Rank(s) < Rank(ret.source)) => Failed(s)

C17_Witness ==
    /\ Returned /\ ret.err = "" /\ ret.source = "v2"
    /\ FailedBy("ecs", "creds", "status")
    /\ failures = <<[strat |-> "env", step |-> "env", cause |-> "absent"],
                    [strat |-> "ecs", step |-> "creds", cause |-> "status"]>>

(***************************************************************************)
(* C18: with an IMDS version that is neither "v1" nor "v2" the v2 flow is  *)
(* attempted first, and the v1 flow is attempted exactly when the v2 flow  *)
(* failed, at whichever step (token, role name, credentials fetch, JSON    *)
(* decode); v1 is never attempted after a v2 success.                      *)
(***************************************************************************)
AttemptIndex(s) == CHOOSE k \in DOMAIN attempts : attempts[k] = s

C18_V1ExactlyAfterV2Failure ==
    (cfg.loaded /\ cfg.UseIMDS /\ cfg.IMDSVersion \notin {"v1", "v2"}) =>
        /\ Attempted("v1") =>
              /\ Attempted("v2")
              /\ AttemptIndex("v2") < AttemptIndex("v1")
              /\ Failed("v2")
        /\ \A step \in {"token", "role", "creds"} :
              FailedAt("v2", step) => (pc = "v1" \/ Attempted("v1"))
        /\ (Returned /\ Attempted("v2")) => (Attempted("v1") <=> Failed("v2"))
        /\ (ret.returned /\ ret.err = "" /\ ret.source = "v2") => ~Attempted("v1")

C18_Witness ==
    /\ Returned /\ cfg.IMDSVersion = "auto"
    /\ FailedBy("v2", "creds", "body")
    /\ ret.err = "" /\ ret.source = "v1"

(***************************************************************************)
(* C19: with IMDS version "v2" the v1 flow is never attempted: when any    *)
(* step of the v2 flow fails GetCredentials goes straight to the           *)
(* exhaustion error and no IMDS request without a token is issued.         *)
(***************************************************************************)
C19_NoDowngradeFromV2 ==
    (cfg.loaded /\ cfg.IMDSVersion = "v2") =>
        /\ ~Attempted("v1")
        /\ pc # "v1"
        /\ \A k \in DOMAIN requests :
              /\ requests[k].strat # "v1"
              /\ (requests[k].strat = "v2" /\ requests[k].method = "GET") =>
                    requests[k].token # ""
        /\ Failed("v2") =>
              /\ pc \in {"exhaust", "done"}
              /\ inflight = {}
              /\ requests[Len(requests)].strat = "v2"
              /\ Returned => ret.err = "unable to locate AWS credentials"

C19_Witness ==
    /\ Returned /\ env.AWS_IMDS_VERSION = "v2"
    /\ FailedBy("v2", "role", "timeout")
    /\ ret.creds = Nil /\ attempts = <<"env", "v2">>

(***************************************************************************)
(* C20: the v2 flow issues its requests in the order token PUT (TTL header *)
(* 21600), role-name GET, credentials GET; each later request is issued    *)
(* only after the one before it was answered successfully, and both GETs   *)
(* carry as token exactly the body the token PUT of this call returned.    *)
(***************************************************************************)
AnsweredOK(k) ==
    \E j \in DOMAIN responses :
        responses[j].req = k /\ responses[j].kind = "ok" /\ responses[j].status = 200

BodyOf(k) ==
    LET j == CHOOSE i \in DOMAIN responses : responses[i].req = k
    IN responses[j].body.text

V2Requests == {k \in DOMAIN requests : requests[k].strat = "v2"}

C20_V2RequestOrder ==
    /\ Cardinality(V2Requests) <= 3
    /\ \A k \in V2Requests :
          CASE requests[k].step = "token" ->
                 /\ requests[k].method = "PUT"
                 /\ requests[k].url = "http://169.254.169.254/latest/api/token"
                 /\ requests[k].ttl = 21600
                 /\ k - 1 \notin V2Requests
            [] requests[k].step = "role" ->
                 /\ requests[k].method = "GET"
                 /\ k - 1 \in V2Requests
                 /\ requests[k - 1].step = "token"
                 /\ AnsweredOK(k - 1)
                 /\ requests[k].token = BodyOf(k - 1)
            [] requests[k].step = "creds" ->
                 /\ requests[k].method = "GET"
                 /\ k - 1 \in V2Requests
                 /\ requests[k - 1].step = "role"
                 /\ AnsweredOK(k - 1)
                 /\ AnsweredOK(k - 2)
                 /\ requests[k].token = BodyOf(k - 2)
            [] OTHER -> FALSE

C20_Witness ==
    /\ Len(requests) = 4
    /\ requests[1].strat = "ecs"
    /\ requests[4].strat = "v2" /\ requests[4].step = "creds"
    /\ requests[4].token = "imds-session-token"
    /\ inflight = {4}

(***************************************************************************)
(* C21: in every metadata strategy a transport error, a timeout, a non-200 *)
(* status or a body/JSON decode failure at any step makes the whole        *)
(* strategy fail: no later step of that strategy is issued, the strategy   *)
(* yields no credentials, and credentials never come with an error nor     *)
(* from a strategy one of whose steps failed.                              *)
(***************************************************************************)
MetadataStrategies == {"ecs", "v2", "v1"}

StepRank(step) ==
    CASE step = "token" -> 1 [] step = "role" -> 2 [] step = "creds" -> 3 [] OTHER -> 0

FailuresOf(s) == {k \in DOMAIN failures : failures[k].strat = s}

RequestsOf(s) == {k \in DOMAIN requests : requests[k].strat = s}

C21_FailedStepFailsStrategy ==
    /\ \A j \in DOMAIN responses :
          responses[j].kind # "ok" =>
              FailedBy(requests[responses[j].req].strat,
                       requests[responses[j].req].step, responses[j].kind)
    /\ \A s \in MetadataStrategies :
          /\ Cardinality(FailuresOf(s)) <= 1
          /\ \A k \in FailuresOf(s) :
                /\ \A r \in RequestsOf(s) :
                      /\ StepRank(requests[r].step) <= StepRank(failures[k].step)
                      /\ r \notin inflight
                /\ failures[k].cause = "url" =>
                      \A r \in RequestsOf(s) : requests[r].step # "creds"
                /\ ~(ret.returned /\ ret.err = "" /\ ret.source = s)
    /\ ret.returned => ((ret.err = "") <=> (ret.creds # Nil))
    /\ (ret.returned /\ ret.err = "" /\ ret.source \in MetadataStrategies) =>
          \A j \in DOMAIN responses :
              requests[responses[j].req].strat = ret.source =>
                  responses[j].kind = "ok" /\ responses[j].status = 200

C21_Witness ==
    /\ Returned /\ ret.err # "" /\ ret.creds = Nil
    /\ FailedBy("ecs", "creds", "timeout")
    /\ FailedBy("v2", "role", "status")
    /\ FailedBy("v1", "creds", "body")
    /\ Len(requests) = 5

(***************************************************************************)
(* C22: every response body obtained by a request is closed on every exit *)
(* path of its strategy (success, non-200 status, body read error, decode *)
(* error, failure of a later step): no body is open when a strategy has   *)
(* returned, so none is open when GetCredentials returns, also in the v1  *)
(* flow, where one variable holds both responses.                         *)
(***************************************************************************)
\* the requests whose answer carried a body
WithBody ==
    {responses[j].req : j \in {m \in DOMAIN responses :
                                  responses[m].kind \in {"ok", "status", "body"}}}

C22_BodiesClosed ==
    /\ openBodies \subseteq WithBody
    /\ pc # "wait" => (openBodies = {} /\ deferred = <<>>)
    /\ Returned => openBodies = {}
    /\ pc = "wait" =>
          /\ openBodies = {deferred[k].body : k \in DOMAIN deferred}
          /\ \A i \in inflight : \A k \in RequestsOf(requests[i].strat) :
                k # i => k \in openBodies

C22_Witness ==
    /\ Returned /\ ret.err = "" /\ ret.source = "v1"
    /\ Cardinality(WithBody) = 5
    /\ FailedBy("v2", "creds", "status")
    /\ openBodies = {}

(***************************************************************************)
(* C23: a Credentials value returned from a source that supplied no        *)
(* expiration, the environment variables included, has its Expiration set  *)
(* to resolution time + 1 hour, never left at the zero time.                *)
(***************************************************************************)
\* the instants at which the call may be said to resolve, plus one hour
ResolutionPlusHour == {t + OneHour : t \in startTime..now}

NoExpirationSupplied ==
    \/ ret.source = "env"
    \/ /\ ret.source \in MetadataStrategies
       /\ SourceAnswered
       /\ AnsweredBody.Expiration = ""

C23_AbsentExpirationDefaulted ==
    (Succeeded /\ NoExpirationSupplied) =>
        /\ ret.creds.Expiration # ZeroTime
        /\ ret.creds.Expiration \in ResolutionPlusHour

(***************************************************************************)
(* C24: the role name put in the URL of the credentials request (step 3    *)
(* of v2, step 2 of v1) is the body of the role listing with leading and   *)
(* trailing whitespace removed: a body "my-role\n" requests the path       *)
(* ending in "/my-role".                                                   *)
(***************************************************************************)
\* strings.TrimSpace on the role bodies of the model
Trimmed(b) == IF b = "my-role\n" THEN "my-role" ELSE b

RoleAnswers ==
    {j \in DOMAIN responses :
        responses[j].kind = "ok" /\ requests[responses[j].req].step = "role"}

C24_RoleNameTrimmed ==
    \A j \in RoleAnswers :
        LET r == responses[j].req
        IN \/ r \in inflight
           \/ /\ r + 1 \in DOMAIN requests
              /\ requests[r + 1].strat = requests[r].strat
              /\ requests[r + 1].step = "creds"
              /\ requests[r + 1].url =
                    "http://169.254.169.254/latest/meta-data/iam/security-credentials/"
                        \o Trimmed(responses[j].body.text)

(***************************************************************************)
(* C26: every Credentials value GetCredentials returns with a nil error    *)
(* has a non-empty AccessKeyID and a non-empty SecretAccessKey, whichever  *)
(* strategy produced it, also when a metadata endpoint answers 200 with a  *)
(* JSON object lacking those fields.                                       *)
(***************************************************************************)
C26_ReturnedCredentialsUsable ==
    (ret.returned /\ ret.err = "") =>
        /\ ret.creds # Nil
        /\ ret.creds.AccessKeyID # ""
        /\ ret.creds.SecretAccessKey # ""

(***************************************************************************)
(* C27: after any sequence of UI messages selectedTable is >= 0 and, when  *)
(* the table list is non-empty, selectedTable < len(tables), so the Tab    *)
(* and Enter handlers never index tables out of range.                     *)
(***************************************************************************)
C27_SelectionInRange ==
    /\ selectedTable >= 0
    /\ Len(tables) > 0 => selectedTable < Len(tables)
    /\ \A k \in DOMAIN pending :
          pending[k].cmd = "loadTableInfo" =>
              \E t \in DOMAIN tables : tables[t] = pending[k].tableName

C27_Witness ==
    /\ Len(tables) = 3 /\ selectedTable = 2
    /\ lastMsg \in {"down", "j"}
    /\ viewMode = "index"

(***************************************************************************)
(* C28: whenever the details or the indexes view shows table data          *)
(* (tableData non-nil, not loading), the data is that of the selected      *)
(* table: tableData.TableName = tables[selectedTable].  Up/Down in those   *)
(* views and re-entering the details view for another table never leave    *)
(* another table's details on display.                                     *)
(***************************************************************************)
ShowsTableData ==
    /\ viewMode \in {"table", "index"}
    /\ ~loading
    /\ error = Nil
    /\ tableData # Nil

C28_DetailsOfSelectedTable ==
    ShowsTableData => tableData.TableName = tables[selectedTable + 1]

(***************************************************************************)
(* C25: GetCredentials modifies neither the Config nor the environment nor *)
(* anything two calls share.  For two calls on one Config interleaved in   *)
(* any order, a step of one call leaves the locals of the other as they    *)
(* are, and each call returns what it returns when run alone against the   *)
(* same environment and the same answers of the endpoints: the credentials *)
(* decoded from the last answer it received itself, or the exhaustion      *)
(* error; a value once returned is not changed by the other call.          *)
(***************************************************************************)
\* what a call returns alone, given the requests it issued and the answers it got
IsSoloOutcome(reqs, resps, start, r) ==
    IF EnvCredsUsable(EnvCredentials(env))
    THEN r = Success(EnvCredentials(env), "env")
    ELSE IF /\ resps # <<>>
            /\ resps[Len(resps)].kind = "ok"
            /\ reqs[resps[Len(resps)].req].step = "creds"
         THEN LET b == resps[Len(resps)].body
              IN /\ r.returned /\ r.err = ""
                 /\ r.source = reqs[resps[Len(resps)].req].strat
                 /\ r.creds.AccessKeyID = b.AccessKeyId
                 /\ r.creds.SecretAccessKey = b.SecretAccessKey
                 /\ r.creds.SessionToken = b.Token
                 /\ IF IsTimestamp(b.Expiration)
                    THEN <<b.Expiration, r.creds.Expiration>> \in Timestamps
                    ELSE r.creds.Expiration \in
                            {t + OneHour : t \in start..now}
         ELSE r = [returned |-> TRUE, creds |-> Nil,
                   err |-> "unable to locate AWS credentials", source |-> "none"]

C25_SwitchKeepsLocals ==
    /\ parked'.pc = pc /\ pc' = parked.pc
    /\ parked'.ret = ret /\ ret' = parked.ret
    /\ parked'.requests = requests /\ requests' = parked.requests
    /\ parked'.responses = responses /\ responses' = parked.responses
    /\ parked'.token = token /\ token' = parked.token
    /\ parked'.failures = failures /\ failures' = parked.failures

=============================================================================
